---- MODULE Spec2Model ----
(***************************************************************************)
(* Satisfiability of modal mu-calculus formulae by reduction to a parity   *)
(* game: AST -> APTA (with Omega) -> arena, tracking NPA -> parity game -> *)
(* PGSolver text -> verdict.  One action per step of the construction.     *)
(*                                                                         *)
(* Encoding of the Python values:                                          *)
(*   None                  <<>>                                            *)
(*   formula (tuple)       <<op, ...>> with op the Operator name           *)
(*   APTA label (p, b)     <<p, b>>                                        *)
(*   frozenset sigma       <<"sigma", {<<p, b>>, ...}>>                    *)
(*   frozenset d           <<"d", {<<q, succ>>, ...}>>                     *)
(*   int q (modal move)    <<"q", q>>                                      *)
(*   game symbol (sigma,d) <<"pair", sigma, d>>                            *)
(*   dict                  sequence of <<key, value>> in insertion order   *)
(*   list index i          position i + 1 of the sequence                  *)
(***************************************************************************)
EXTENDS Integers, Sequences, FiniteSets, TLC

VARIABLES formula, seed, pc,
          states, num_expanded,
          positions, pending, visited, d_choices,
          npa, q_idx, aut, decoded,
          nodes, gpending, gvisited,
          text, verdict,
          alt

vars == <<formula, seed, pc, states, num_expanded, positions, pending, visited,
          d_choices, npa, q_idx, aut, decoded, nodes, gpending, gvisited, text, verdict, alt>>

(* ---------------------------- bounds ---------------------------------- *)

\* iteration orders of unordered sets that are explored: seeds 0..MaxSeed
MaxSeed == 1

\* APTA states beyond which the expansion loop is no longer followed
MaxStates == 9

\* deepest fixpoint nest whose alternation depth and level are computed
MaxNest == 3

\* worlds of the Kripke structures of the reference satisfiability check
MaxWorlds == 2

(* ---------------------------- helpers --------------------------------- *)

None == <<>>

Max(a, b) == IF a >= b THEN a ELSE b

RECURSIVE SetMax(_)
SetMax(S) == LET x == CHOOSE y \in S : TRUE
             IN IF S = {x} THEN x ELSE Max(x, SetMax(S \ {x}))

\* ascending enumeration of a set of integers (iteration order of a small
\* Python set of small ints)
RECURSIVE SortedSeq(_)
SortedSeq(S) == IF S = {} THEN <<>>
                ELSE LET m == CHOOSE x \in S : \A y \in S : x <= y
                     IN <<m>> \o SortedSeq(S \ {m})

Range(s) == {s[i] : i \in 1..Len(s)}

\* iteration order of a set whose element hashes vary between runs (strings,
\* object addresses): the canonical enumeration rotated by the seed
Rotate(s, k) == IF Len(s) = 0 THEN s
                ELSE [i \in 1..Len(s) |-> s[((i - 1 + k) % Len(s)) + 1]]

\* dict lookup: position of key in a sequence of <<key, value>>, 0 if absent
DictPos(d, key) == IF \E i \in 1..Len(d) : d[i][1] = key
                   THEN CHOOSE i \in 1..Len(d) : d[i][1] = key
                   ELSE 0

RECURSIVE Flatten(_)
Flatten(ss) == IF ss = <<>> THEN <<>> ELSE Head(ss) \o Flatten(Tail(ss))

(* ---------------------------- formulas -------------------------------- *)

TT == <<"LIT", TRUE>>
FF == <<"LIT", FALSE>>
Prop(p) == <<"PROP", p>>
Var(x) == <<"VAR", x>>
Neg(f) == <<"NEGATION", f>>
And(f, g) == <<"CONJUNCTION", f, g>>
Or(f, g) == <<"DISJUNCTION", f, g>>
Dia(f) == <<"ONE", "", f>>
Box(f) == <<"ALL", "", f>>
Mu(x, f) == <<"FIXPOINT_MU", x, f>>
Nu(x, f) == <<"FIXPOINT_NU", x, f>>

IsFixpoint(f) == f[1] \in {"FIXPOINT_MU", "FIXPOINT_NU"}

RECURSIVE substitute_variable(_, _, _)
substitute_variable(ast, var, expr) ==
    IF ast[1] = "VAR" THEN (IF ast[2] = var THEN expr ELSE ast)
    ELSE IF ast[1] \in {"LIT", "PROP"} THEN ast
    ELSE IF ast[1] = "NEGATION" THEN <<ast[1], substitute_variable(ast[2], var, expr)>>
    ELSE IF ast[1] \in {"CONJUNCTION", "DISJUNCTION"}
         THEN <<ast[1], substitute_variable(ast[2], var, expr),
                        substitute_variable(ast[3], var, expr)>>
    ELSE <<ast[1], ast[2], substitute_variable(ast[3], var, expr)>>

RECURSIVE variable_occurs(_, _)
variable_occurs(var, f) ==
    IF f[1] = "VAR" THEN f[2] = var
    ELSE IF IsFixpoint(f) THEN (IF f[2] # var THEN variable_occurs(var, f[3]) ELSE FALSE)
    ELSE IF f[1] \in {"CONJUNCTION", "DISJUNCTION"}
         THEN variable_occurs(var, f[2]) \/ variable_occurs(var, f[3])
    ELSE IF f[1] = "NEGATION" THEN variable_occurs(var, f[2])
    ELSE IF f[1] \in {"ONE", "ALL"} THEN variable_occurs(var, f[3])
    ELSE FALSE

RECURSIVE buscar_siguiente_fixpoint(_)
buscar_siguiente_fixpoint(f) ==
    IF IsFixpoint(f) THEN f
    ELSE IF f[1] \in {"CONJUNCTION", "DISJUNCTION"}
         THEN LET l == buscar_siguiente_fixpoint(f[2])
              IN IF l # None THEN l ELSE buscar_siguiente_fixpoint(f[3])
    ELSE IF f[1] = "NEGATION" THEN buscar_siguiente_fixpoint(f[2])
    ELSE IF f[1] \in {"ONE", "ALL"} THEN buscar_siguiente_fixpoint(f[3])
    ELSE None

\* the step added for an inner fixpoint: 1 iff the outer variable appears in
\* the inner body and the two binders differ
AltStep(appears, outer_op, inner_op) ==
    IF appears /\ outer_op # inner_op THEN 1 ELSE 0

\* variant: a fixpoint without inner fixpoint counts for nothing
AltLeafZero(occurs) == 0

\* the value returned when the principal fixpoint has no inner fixpoint
AltLeaf(occurs) == IF occurs THEN 1 ELSE 0

RECURSIVE alternation_depth(_)
alternation_depth(f) ==
    LET primer_fp == buscar_siguiente_fixpoint(f)
    IN IF primer_fp = None THEN 0
       ELSE LET outer_op == primer_fp[1]
                outer_var == primer_fp[2]
                outer_body == primer_fp[3]
                inner_fp == buscar_siguiente_fixpoint(outer_body)
            IN IF inner_fp # None
               THEN AltStep(variable_occurs(outer_var, inner_fp[3]), outer_op, inner_fp[1])
                    + alternation_depth(inner_fp)
               ELSE AltLeaf(variable_occurs(outer_var, outer_body))

\* variants: the two roundings exchanged
LevelMuFloor(d) == 2 * (d \div 2)
LevelNuCeil(d) == 2 * ((d + 1) \div 2)

\* Python's // is floor division, as is \div
LevelMu(d) == 2 * ((d + 1) \div 2) - 1
LevelNu(d) == 2 * (d \div 2)

alternation_level(chi) ==
    LET d == alternation_depth(chi)
    IN IF chi[1] = "FIXPOINT_MU" THEN LevelMu(d)
       ELSE IF chi[1] = "FIXPOINT_NU" THEN LevelNu(d)
       ELSE 0

(* ------------------------------ APTA ---------------------------------- *)

get_priority(f) ==
    IF f = TT THEN 0
    ELSE IF f = FF THEN 1
    ELSE IF IsFixpoint(f) THEN alternation_level(f)
    ELSE 0

is_local(f) ==
    f[1] \in {"PROP", "NEGATION", "CONJUNCTION", "DISJUNCTION",
              "FIXPOINT_MU", "FIXPOINT_NU"} \/ f[1] = "LIT"

is_existential(f) ==
    f[1] \in {"DISJUNCTION", "FIXPOINT_MU", "FIXPOINT_NU", "ONE"} \/ f = FF

\* APTA.State.__init__
NewState(f) == [value |-> f, local |-> is_local(f), existential |-> is_existential(f),
                omegap |-> get_priority(f), next |-> <<>>, omega |-> 0]

\* state_map[f]: the 0-based index of the state whose value is f, -1 if none
StateIndex(sts, f) == IF \E i \in 1..Len(sts) : sts[i].value = f
                      THEN (CHOOSE i \in 1..Len(sts) : sts[i].value = f) - 1
                      ELSE -1

\* the list of states after get_state(f)
get_state(sts, f) == IF StateIndex(sts, f) = -1 THEN Append(sts, NewState(f)) ELSE sts

\* next.setdefault(label, set()).add(target) on an insertion-ordered dict
DictAdd(d, label, targets) ==
    LET i == DictPos(d, label)
    IN IF i = 0 THEN Append(d, <<label, targets>>)
       ELSE [d EXCEPT ![i] = <<label, d[i][2] \cup targets>>]

\* the list of states after _add_transition(states[from], label, target)
add_transition(sts, from, label, target_formula) ==
    LET sts1 == get_state(sts, target_formula)
        target_id == StateIndex(sts1, target_formula)
    IN [sts1 EXCEPT ![from + 1].next = DictAdd(@, label, {target_id})]

\* the list of states after APTA.expand_state(state_id)
APTA_expand_state(sts, state_id) ==
    LET f == sts[state_id + 1].value
    IN IF f[1] \in {"CONJUNCTION", "DISJUNCTION"}
       THEN add_transition(add_transition(sts, state_id, None, f[2]), state_id, None, f[3])
       ELSE IF f[1] \in {"ONE", "ALL"}
       THEN add_transition(sts, state_id, None, f[3])
       ELSE IF IsFixpoint(f)
       THEN add_transition(sts, state_id, None, substitute_variable(f[3], f[2], f))
       ELSE IF f[1] = "PROP"
       THEN add_transition(add_transition(sts, state_id, <<f[2], TRUE>>, TT),
                           state_id, <<f[2], FALSE>>, FF)
       ELSE IF f[1] = "NEGATION"
       THEN add_transition(add_transition(sts, state_id, <<f[2][2], TRUE>>, FF),
                           state_id, <<f[2][2], FALSE>>, TT)
       ELSE add_transition(sts, state_id, None, f)

\* graph of compute_total_priority: the successors of state q (0-based)
Successors(sts, q) == UNION {sts[q + 1].next[i][2] : i \in 1..Len(sts[q + 1].next)}

RECURSIVE ReachFrom(_, _)
ReachFrom(sts, S) ==
    LET S1 == S \cup UNION {Successors(sts, q) : q \in S}
    IN IF S1 = S THEN S ELSE ReachFrom(sts, S1)

\* states reachable from q in one or more steps
ReachPlus(sts, q) == ReachFrom(sts, Successors(sts, q))

\* variant: every state is a component of its own
tarjanSingletons(sts) == {{q} : q \in 0..(Len(sts) - 1)}

\* tarjan.tarjan(graph): the strongly connected components of the graph
tarjan(sts) ==
    LET Q == 0..(Len(sts) - 1)
    IN {{q2 \in Q : q2 = q \/ (q2 \in ReachPlus(sts, q) /\ q \in ReachPlus(sts, q2))} : q \in Q}

\* variant: every component is given the priority of a trivial one
ComponentOmegaTrivial(sts, component) == 0

\* the total priority given to the states of one component
ComponentOmega(sts, component) ==
    IF Cardinality(component) = 1
       /\ (LET q == CHOOSE x \in component : TRUE IN q \notin Successors(sts, q))
    THEN 0
    ELSE SetMax({sts[q + 1].omegap : q \in component})

\* variant: the component maximum is written over omegap as well
compute_total_priorityInPlace(sts) ==
    [i \in 1..Len(sts) |->
        LET component == CHOOSE c \in tarjan(sts) : (i - 1) \in c
        IN [sts[i] EXCEPT !.omega = ComponentOmega(sts, component),
                          !.omegap = ComponentOmega(sts, component)]]

\* the list of states after compute_total_priority()
compute_total_priority(sts) ==
    [i \in 1..Len(sts) |->
        LET component == CHOOSE c \in tarjan(sts) : (i - 1) \in c
        IN [sts[i] EXCEPT !.omega = ComponentOmega(sts, component)]]

(* ------------------------------ arena --------------------------------- *)

\* sorted(): the proposition names in ascending order
PropOrder == <<"p", "q">>

RECURSIVE get_propositions(_)
get_propositions(f) ==
    IF f[1] = "PROP" THEN {f[2]}
    ELSE IF f[1] \in {"ONE", "ALL"} THEN get_propositions(f[3])
    ELSE IF f[1] \in {"LIT", "VAR"} THEN {}
    ELSE IF f[1] = "NEGATION" THEN get_propositions(f[2])
    ELSE IF IsFixpoint(f) THEN get_propositions(f[3])
    ELSE get_propositions(f[2]) \cup get_propositions(f[3])

\* product([False, True], repeat=len(props)) zipped with props, in the
\* order itertools.product yields the combinations
RECURSIVE Combos(_)
Combos(props) ==
    IF props = <<>> THEN << {} >>
    ELSE LET rest == Combos(Tail(props))
         IN [i \in 1..(2 * Len(rest)) |->
                IF i <= Len(rest) THEN {<<Head(props), FALSE>>} \cup rest[i]
                ELSE {<<Head(props), TRUE>>} \cup rest[i - Len(rest)]]

\* the letters of extract_alphabet(states, aut), in canonical order
extract_alphabet(S, sts) ==
    LET labels == UNION {get_propositions(sts[q + 1].value) : q \in S}
        props == SelectSeq(PropOrder, LAMBDA p : p \in labels)
    IN Combos(props)

\* variant: the first letter of the iteration is skipped
AlphabetOrderSkip(S, sts, sd) == Tail(Rotate(extract_alphabet(S, sts), sd))

\* the order in which the returned set of frozensets is iterated
AlphabetOrder(S, sts, sd) == Rotate(extract_alphabet(S, sts), sd)

\* position_map[(states, symbol)]: 0-based index, -1 if none
PositionIndex(ps, S, symbol) ==
    IF \E i \in 1..Len(ps) : ps[i].states = S /\ ps[i].symbol = symbol
    THEN (CHOOSE i \in 1..Len(ps) : ps[i].states = S /\ ps[i].symbol = symbol) - 1
    ELSE -1

IsDiamond(sts, S, symbol) == symbol = None \/ \E q \in S : sts[q + 1].local

\* the list of positions after get_position(states, symbol)
get_position(ps, sts, S, symbol) ==
    IF PositionIndex(ps, S, symbol) = -1
    THEN Append(ps, [states |-> S, symbol |-> symbol,
                     is_diamond |-> IsDiamond(sts, S, symbol), next |-> <<>>])
    ELSE ps

\* GameArena.add_transition on the pair (positions, pending)
arena_add_transition(ar, sts, from, label, to_states, symbol, vis) ==
    LET ps1 == get_position(ar.positions, sts, to_states, symbol)
        target_idx == PositionIndex(ps1, to_states, symbol)
    IN [positions |-> [ps1 EXCEPT ![from + 1].next = Append(@, <<label, target_idx>>)],
        pending |-> IF target_idx \notin vis THEN Append(ar.pending, target_idx)
                    ELSE ar.pending]

RECURSIVE AddEdges(_, _, _, _, _)
AddEdges(ar, sts, from, edges, vis) ==
    IF edges = <<>> THEN ar
    ELSE AddEdges(arena_add_transition(ar, sts, from, Head(edges)[1], Head(edges)[2],
                                       Head(edges)[3], vis),
                  sts, from, Tail(edges), vis)

\* itertools.product(*seqs): all tuples, the leftmost component slowest
RECURSIVE Product(_)
Product(seqs) ==
    IF seqs = <<>> THEN << <<>> >>
    ELSE LET rest == Product(Tail(seqs))
             h == Head(seqs)
         IN Flatten([i \in 1..Len(h) |-> [j \in 1..Len(rest) |-> <<h[i]>> \o rest[j]]])

\* variant: only the transitions labelled with a literal of sigma are taken
UniversalTargetsLabelled(st, sigma) ==
    UNION {st.next[i][2] : i \in {j \in 1..Len(st.next) : st.next[j][1] \in sigma}}

\* the targets of the transitions of a universal local state enabled by sigma
UniversalTargets(st, sigma) ==
    UNION {st.next[i][2] : i \in {j \in 1..Len(st.next) :
              st.next[j][1] = None \/ st.next[j][1] \in sigma}}

\* updatel(s, sigma, d), d a set of pairs <<q, succ>>
updatel(sts, s, sigma, d) ==
    UNION {IF sts[q + 1].local
           THEN IF sts[q + 1].existential
                THEN {pr[2] : pr \in {x \in d : x[1] = q}}
                ELSE UniversalTargets(sts[q + 1], sigma)
           ELSE {q} : q \in s}

\* variant: every state of s moves, whatever its polarity
updatemAll(sts, s, q) == UNION {Successors(sts, x) : x \in s}

\* updatem(s, sigma, q)
updatem(sts, s, q) ==
    Successors(sts, q)
    \cup UNION {Successors(sts, q2) : q2 \in {x \in s : x # q /\ ~sts[x + 1].existential}}

\* the edges <<label, target states, target symbol>> added when a position
\* with a symbol and a local state is expanded
LocalEdges(sts, S, p) ==
    LET existentials == SortedSeq({q \in S : sts[q + 1].local /\ sts[q + 1].existential})
        choices == [i \in 1..Len(existentials) |->
                       [j \in 1..Len(sts[existentials[i] + 1].next) |->
                           sts[existentials[i] + 1].next[j][2]]]
        combos == Flatten([i \in 1..Len(Product(choices)) |->
                      Product([k \in 1..Len(existentials) |->
                                  SortedSeq(Product(choices)[i][k])])])
    IN [i \in 1..Len(combos) |->
          LET d == {<<existentials[k], combos[i][k]>> : k \in 1..Len(existentials)}
          IN << <<"d", d>>, updatel(sts, S, p[2], d), p >>]

\* the edges added when a position with a symbol and only modal states is expanded
ModalEdges(sts, S) ==
    LET existentials == SortedSeq({q \in S : sts[q + 1].existential})
        universals == {q \in S : ~sts[q + 1].existential}
    IN IF existentials # <<>>
       THEN [i \in 1..Len(existentials) |->
               << <<"q", existentials[i]>>, updatem(sts, S, existentials[i]), None >>]
       ELSE IF universals # {}
       THEN << <<None, updatem(sts, S, CHOOSE m \in universals : \A y \in universals : m <= y),
                 None>> >>
       ELSE <<>>

\* the edges added by one iteration of the loop of emptyness_arena
ArenaEdges(sts, pos, sd) ==
    IF pos.symbol = None
    THEN LET sigmas == AlphabetOrder(pos.states, sts, sd)
         IN [i \in 1..Len(sigmas) |->
               << <<"sigma", sigmas[i]>>, pos.states, <<"sigma", sigmas[i]>> >>]
    ELSE IF \E q \in pos.states : sts[q + 1].local
    THEN LocalEdges(sts, pos.states, pos.symbol)
    ELSE ModalEdges(sts, pos.states)

(* ------------------------------- NPA ---------------------------------- *)

\* Label(type, extra, aprops); extra is None, <<"int", q>> or <<"pairs", seq>>
Label(type, extra, aprops) == [type |-> type, extra |-> extra, aprops |-> aprops]

\* Label.__hash__: hash((type, extra, aprops)), taken to be collision free
LabelHash(l) == <<l.type, l.extra, l.aprops>>

\* Label.__eq__: aprops is compared with itself
LabelEq(a, b) == a.type = b.type /\ a.extra = b.extra /\ a.aprops = a.aprops

\* a dict finds key b for a lookup of a iff the hashes agree and a == b
KeyMatch(a, b) == LabelHash(a) = LabelHash(b) /\ LabelEq(a, b)

LabelPos(d, lbl) == IF \E i \in 1..Len(d) : KeyMatch(lbl, d[i][1])
                    THEN CHOOSE i \in 1..Len(d) : KeyMatch(lbl, d[i][1])
                    ELSE 0

\* next[lbl] = targets
LabelSet(d, lbl, targets) ==
    LET i == LabelPos(d, lbl)
    IN IF i = 0 THEN Append(d, <<lbl, targets>>)
       ELSE [d EXCEPT ![i] = <<d[i][1], targets>>]

\* next.setdefault(lbl, set()).update(targets)
LabelUpdate(d, lbl, targets) ==
    LET i == LabelPos(d, lbl)
    IN IF i = 0 THEN Append(d, <<lbl, targets>>)
       ELSE [d EXCEPT ![i] = <<d[i][1], d[i][2] \cup targets>>]

RECURSIVE FoldSet(_, _)
FoldSet(d, entries) ==
    IF entries = <<>> THEN d
    ELSE FoldSet(LabelSet(d, Head(entries)[1], Head(entries)[2]), Tail(entries))

RECURSIVE FoldUpdate(_, _)
FoldUpdate(d, entries) ==
    IF entries = <<>> THEN d
    ELSE FoldUpdate(LabelUpdate(d, Head(entries)[1], Head(entries)[2]), Tail(entries))

\* variant: the index is recorded for both polarities
StateExtraAlways(st, state_id) == <<"int", state_id>>

\* the extra of the STATE label of a modal state
StateExtra(st, state_id) == IF st.existential THEN <<"int", state_id>> ELSE None

\* the label of the self-loop of a modal state
WaitLabel == Label("CHOICE", None, <<>>)

\* the transition table of NPA state state_id after _expand_state(state_id)
NPA_expand_state(sts, state_id) ==
    LET st == sts[state_id + 1]
    IN IF st.local /\ st.existential
       THEN LET succs == Flatten([i \in 1..Len(st.next) |-> SortedSeq(st.next[i][2])])
            IN FoldSet(<<>>, [i \in 1..Len(succs) |->
                   <<Label("CHOICE", <<"pairs", << <<state_id, succs[i]>> >> >>, <<>>),
                     {succs[i]}>>])
       ELSE IF st.local
       THEN FoldUpdate(<<>>, [i \in 1..Len(st.next) |->
                   <<IF st.next[i][1] # None THEN Label("ANY", None, <<st.next[i][1]>>)
                     ELSE Label("ANY", None, <<>>),
                     st.next[i][2]>>])
       ELSE LabelSet(FoldUpdate(<<>>, [i \in 1..Len(st.next) |->
                        <<Label("STATE", StateExtra(st, state_id), <<>>), st.next[i][2]>>]),
                     WaitLabel, {state_id})

\* the states created by from_apta before any is expanded
NPA_states(sts) == [i \in 1..Len(sts) |->
                      [idx |-> i - 1, priority |-> sts[i].omega + 1, next |-> <<>>]]

(* --------------------------- determinize ------------------------------ *)

\* int.bit_length()
RECURSIVE bit_length(_)
bit_length(n) == IF n = 0 THEN 0 ELSE 1 + bit_length(n \div 2)

\* BDDMapping.__init__
local_ex_states(sts) ==
    SortedSeq({q \in 0..(Len(sts) - 1) :
        /\ sts[q + 1].local /\ sts[q + 1].existential
        /\ Len(Flatten([i \in 1..Len(sts[q + 1].next) |->
                           SortedSeq(sts[q + 1].next[i][2])])) > 1})

modal_ex_states(sts) ==
    SortedSeq({q \in 0..(Len(sts) - 1) : ~sts[q + 1].local /\ sts[q + 1].existential})

\* the 0-based position of x in list l, -1 if absent (dict.get gives None)
ListIndex(l, x) == IF \E i \in 1..Len(l) : l[i] = x
                   THEN (CHOOSE i \in 1..Len(l) : l[i] = x) - 1 ELSE -1

local_children(sts) ==
    [k \in 1..Len(local_ex_states(sts)) |->
        LET st == sts[local_ex_states(sts)[k] + 1]
        IN Flatten([i \in 1..Len(st.next) |-> SortedSeq(st.next[i][2])])]

state_length(sts) == bit_length(Len(modal_ex_states(sts)))

\* literals of a conjunction: <<"ap", p, b>>, <<"u", k, b>>, <<"is_choice", "", b>>
Lit(kind, name, value) == <<kind, name, value>>

\* the literal written on _u{k} for the k-th bit (k from 0) of num
StateBit(k, num) == Lit("u", k, (num \div (2 ^ k)) % 2 # 0)

\* whether translate_label constrains the choice variable of position p_index
\* (p_index -1 is dict.get's None): the walrus test is on the index itself
ChoiceEncoded(p_index) == p_index # -1 /\ p_index # 0

\* translate_label(label): the set of literals of the conjunction
translate_label(sts, label) ==
    {Lit("ap", label.aprops[i][1], label.aprops[i][2]) : i \in 1..Len(label.aprops)}
    \cup
    (IF label.type = "STATE"
     THEN {Lit("is_choice", "", FALSE)}
          \cup (IF label.extra # None
                THEN {StateBit(k, ListIndex(modal_ex_states(sts), label.extra[2])) :
                         k \in 0..(state_length(sts) - 1)}
                ELSE {})
     ELSE IF label.type = "CHOICE"
     THEN {Lit("is_choice", "", TRUE)}
          \cup (IF label.extra # None
                THEN UNION {LET pr == label.extra[2][i]
                                p_index == ListIndex(local_ex_states(sts), pr[1])
                            IN IF ChoiceEncoded(p_index)
                               THEN {Lit("u", p_index,
                                         pr[2] # local_children(sts)[p_index + 1][1])}
                               ELSE {} : i \in 1..Len(label.extra[2])}
                ELSE {})
     ELSE {})

\* values[name] of translate_back_label for a conjunction of literals
HasLit(cube, kind, name) == \E l \in cube : l[1] = kind /\ l[2] = name
LitValue(cube, kind, name) == (CHOOSE l \in cube : l[1] = kind /\ l[2] = name)[3]

\* the number read from the bits _u0 .. _u{len-1}, the factor growing from
\* the last variable to the first
RECURSIVE DecodeBits(_, _, _)
DecodeBits(cube, k, factor) ==
    IF k < 0 THEN 0
    ELSE (IF LitValue(cube, "u", k) THEN factor ELSE 0) + DecodeBits(cube, k - 1, 2 * factor)

\* translate_back_label on the CNF of a conjunction of literals: one label.
\* The extra of a decoded CHOICE pairs a state with a list of children
\* (local_children[0] or local_children[1]): <<"lists", seq of <<q, list>>>>
translate_back_label(sts, cube) ==
    LET props == SelectSeq(PropOrder, LAMBDA p : HasLit(cube, "ap", p))
        aprops == [i \in 1..Len(props) |-> <<props[i], LitValue(cube, "ap", props[i])>>]
    IN IF ~HasLit(cube, "is_choice", "")
       THEN Label("ANY", None, aprops)
       ELSE IF LitValue(cube, "is_choice", "")
       THEN LET ks == SelectSeq([k \in 1..Len(local_ex_states(sts)) |-> k - 1],
                                LAMBDA k : HasLit(cube, "u", k))
            IN Label("CHOICE",
                     <<"lists", [i \in 1..Len(ks) |->
                         <<local_ex_states(sts)[ks[i] + 1],
                           local_children(sts)[IF LitValue(cube, "u", ks[i]) THEN 2 ELSE 1]>>]>>,
                     aprops)
       ELSE Label("STATE",
                  IF ~HasLit(cube, "u", 0) THEN None
                  ELSE <<"int", DecodeBits(cube, state_length(sts) - 1, 1)>>,
                  aprops)

\* the edges aut.new_edge(sn, child, label_bf, [priority]) of determinize
aut_edges(sts, tracking) ==
    Flatten([sn \in 1..Len(tracking) |->
       Flatten([i \in 1..Len(tracking[sn].next) |->
          LET children == SortedSeq(tracking[sn].next[i][2])
          IN [c \in 1..Len(children) |->
                [src |-> sn - 1, dst |-> children[c],
                 cond |-> translate_label(sts, tracking[sn].next[i][1]),
                 acc |-> tracking[sn].priority]]])])

(* --------------------------- parity game ------------------------------ *)

\* node_map[(arena_pos, tracking_state, symbol)]: 0-based index, -1 if none
NodeIndex(ns, arena_pos, tracking_state, symbol) ==
    IF \E i \in 1..Len(ns) : /\ ns[i].arena_position = arena_pos
                             /\ ns[i].tracking_state = tracking_state
                             /\ ns[i].symbol = symbol
    THEN (CHOOSE i \in 1..Len(ns) : /\ ns[i].arena_position = arena_pos
                                    /\ ns[i].tracking_state = tracking_state
                                    /\ ns[i].symbol = symbol) - 1
    ELSE -1

\* variant: the owner is that of the arena position, whatever the symbol
NodePlayerPosition(ps, arena_pos, symbol) == ps[arena_pos + 1].is_diamond

\* the owner given to a new node: True is diamond
NodePlayer(ps, arena_pos, symbol) ==
    IF symbol = None THEN ps[arena_pos + 1].is_diamond ELSE FALSE

\* ParityGameNode.__init__ stores priority + 1
NodePriority(priority) == priority + 1

\* the list of nodes after get_node(arena_pos, tracking_state, symbol)
get_node(ns, ps, tracking, arena_pos, tracking_state, symbol) ==
    IF NodeIndex(ns, arena_pos, tracking_state, symbol) # -1 THEN ns
    ELSE Append(ns, [idx |-> Len(ns), arena_position |-> arena_pos,
                     tracking_state |-> tracking_state, symbol |-> symbol,
                     player |-> NodePlayer(ps, arena_pos, symbol),
                     priority |-> NodePriority(tracking[tracking_state + 1].priority),
                     successors |-> {}])

\* rule 3: whether the transition labelled label is compatible with (sigma, d)
ChoiceCompatible(label, d) ==
    /\ d # None /\ d[1] = "d"
    /\ \/ label.extra = None
       \/ /\ label.extra[1] = "pairs"
          /\ \A i \in 1..Len(label.extra[2]) : label.extra[2][i] \in d[2]

StateCompatible(label, d) ==
    /\ d # None /\ d[1] = "q"
    /\ label.extra # None /\ label.extra[1] = "int"
    /\ d[2] = label.extra[2]

ApropsCompatible(label, sigma) ==
    \A i \in 1..Len(label.aprops) :
        \/ ~\E x \in sigma[2] : x[1] = label.aprops[i][1]
        \/ label.aprops[i] \in sigma[2]

is_compatible(label, sigma, d) ==
    /\ IF label.type = "CHOICE" THEN ChoiceCompatible(label, d)
       ELSE IF label.type = "ANY" THEN TRUE
       ELSE StateCompatible(label, d)
    /\ ApropsCompatible(label, sigma)

\* the keys <<arena_pos, tracking_state, symbol>> that expand_state(node)
\* passes to get_node, in order
SuccessorKeys(node, ps, tracking) ==
    LET arena_pos == ps[node.arena_position + 1]
        tracking_state == tracking[node.tracking_state + 1]
    IN IF node.symbol = None
       THEN IF arena_pos.symbol = None
            THEN [i \in 1..Len(arena_pos.next) |->
                    <<arena_pos.next[i][2], node.tracking_state, arena_pos.next[i][1]>>]
            ELSE [i \in 1..Len(arena_pos.next) |->
                    <<arena_pos.next[i][2], node.tracking_state,
                      <<"pair", arena_pos.symbol, arena_pos.next[i][1]>> >>]
       ELSE IF node.symbol[1] = "pair"
       THEN Flatten([i \in 1..Len(tracking_state.next) |->
               IF is_compatible(tracking_state.next[i][1], node.symbol[2], node.symbol[3])
               THEN LET t_primes == SortedSeq(tracking_state.next[i][2])
                    IN [j \in 1..Len(t_primes) |-> <<node.arena_position, t_primes[j], None>>]
               ELSE <<>>])
       ELSE << <<node.arena_position, node.tracking_state, None>> >>

RECURSIVE AddNodes(_, _, _, _, _)
AddNodes(ns, ps, tracking, from, keys) ==
    IF keys = <<>> THEN ns
    ELSE LET k == Head(keys)
             ns1 == get_node(ns, ps, tracking, k[1], k[2], k[3])
             new_idx == NodeIndex(ns1, k[1], k[2], k[3])
         IN AddNodes([ns1 EXCEPT ![from + 1].successors = @ \cup {new_idx}],
                     ps, tracking, from, Tail(keys))

\* the list of nodes after ParityGame.expand_state(nodes[idx])
PG_expand_state(ns, ps, tracking, idx) ==
    AddNodes(ns, ps, tracking, idx, SuccessorKeys(ns[idx + 1], ps, tracking))

\* the order in which a set of nodes is iterated
NodeOrder(S, sd) == Rotate(SortedSeq(S), sd)

\* variant: a stuck node is given the parity of its owner
DeadEndPriorityOwner(player) == player

\* the priority written for a node without successors
DeadEndPriority(player) == 1 - player

\* variant: a node without successors is written as it is
pgsolver_line_plain(node, sd) ==
    [id |-> node.idx, priority |-> node.priority,
     player |-> IF node.player THEN 0 ELSE 1,
     succs |-> NodeOrder(node.successors, sd)]

\* one line `idx priority player successors;` as its four fields
pgsolver_line(node, sd) ==
    LET player == IF node.player THEN 0 ELSE 1
    IN IF node.successors # {}
       THEN [id |-> node.idx, priority |-> node.priority, player |-> player,
             succs |-> NodeOrder(node.successors, sd)]
       ELSE [id |-> node.idx, priority |-> DeadEndPriority(player), player |-> player,
             succs |-> <<node.idx>>]

\* _to_pgsolver_format(): the header `parity N;` and the lines
to_pgsolver_format(ns, sd) ==
    [header |-> Len(ns), lines |-> [i \in 1..Len(ns) |-> pgsolver_line(ns[i], sd)]]

(* ------------------------------ solver -------------------------------- *)

\* the game read back from the text
TextIds(txt) == {txt.lines[i].id : i \in 1..Len(txt.lines)}
TextLine(txt, id) == txt.lines[CHOOSE i \in 1..Len(txt.lines) : txt.lines[i].id = id]

RECURSIVE Attr(_, _, _, _)
Attr(txt, V, A, pl) ==
    LET A1 == A \cup {v \in V :
                 LET ln == TextLine(txt, v)
                     succ == Range(ln.succs) \cap V
                 IN IF ln.player = pl THEN succ \cap A # {}
                    ELSE succ # {} /\ succ \subseteq A}
    IN IF A1 = A THEN A ELSE Attr(txt, V, A1, pl)

\* the nodes of V that player 0 wins (parity max even), by Zielonka's recursion
RECURSIVE Win0(_, _)
Win0(txt, V) ==
    IF V = {} THEN {}
    ELSE LET m == SetMax({TextLine(txt, v).priority : v \in V})
             pl == m % 2
             A == Attr(txt, V, {v \in V : TextLine(txt, v).priority = m}, pl)
             sub == Win0(txt, V \ A)
             opp == IF pl = 0 THEN (V \ A) \ sub ELSE sub
         IN IF opp = {} THEN (IF pl = 0 THEN V ELSE {})
            ELSE LET B == Attr(txt, V, opp, 1 - pl)
                     rest == Win0(txt, V \ B)
                 IN IF pl = 0 THEN rest ELSE rest \cup B

\* spot.solve_game: true iff player 1 wins the initial node
solve_game(txt) == 0 \notin Win0(txt, TextIds(txt))

(* ------------------------------ inputs -------------------------------- *)

p == Prop("p")
q == Prop("q")
X == Var("X")
Y == Var("Y")

\* closed formulae in negation normal form given to the pipeline
Formulas ==
    { TT, FF, p, Neg(p), And(p, Neg(p)), Or(p, Neg(p)), And(p, q),
      Mu("X", X), Nu("X", X), Mu("X", p), Mu("X", Mu("Y", Y)), Mu("X", Mu("Y", X)),
      Mu("X", Mu("Y", Or(X, X))), Mu("X", Mu("Y", Dia(Y))),
      Nu("X", And(p, Dia(X))), Mu("X", Or(p, Dia(X))),
      Mu("X", Nu("Y", And(X, Y))), Nu("Y", Mu("X", Or(X, Y))),
      Mu("X", Dia(X)), Mu("X", Box(X)), Nu("X", Dia(X)),
      Dia(TT), Dia(FF), Box(FF), Dia(p), Box(Dia(p)),
      And(Dia(TT), Box(FF)), And(Dia(p), Box(Neg(p))), And(Dia(p), Dia(Neg(p))),
      Or(Dia(FF), Box(FF)), Or(Or(p, Neg(p)), Or(FF, Dia(p))) }

Seeds == 0..MaxSeed

(* ------------------------------ actions ------------------------------- *)

Init ==
    /\ formula \in Formulas
    /\ seed \in Seeds
    /\ pc = "from_formula"
    /\ states = <<>> /\ num_expanded = 0
    /\ positions = <<>> /\ pending = <<>> /\ visited = {} /\ d_choices = {}
    /\ npa = <<>> /\ q_idx = 0 /\ aut = <<>> /\ decoded = <<>>
    /\ nodes = <<>> /\ gpending = <<>> /\ gvisited = {}
    /\ text = None /\ verdict = None
    /\ alt = <<>>

\* APTA.from_formula: initial = self.get_state(ast)
FromFormula ==
    /\ pc = "from_formula"
    /\ states' = get_state(states, formula)
    /\ num_expanded' = 0
    /\ pc' = "expand"
    /\ UNCHANGED <<formula, seed, positions, pending, visited, d_choices, npa, q_idx,
                   aut, decoded, nodes, gpending, gvisited, text, verdict, alt>>

\* one iteration of the loop of APTA.from_formula
ExpandState ==
    /\ pc = "expand"
    /\ num_expanded < Len(states)
    /\ Len(states) <= MaxStates
    /\ states' = APTA_expand_state(states, num_expanded)
    /\ num_expanded' = num_expanded + 1
    /\ UNCHANGED <<formula, seed, pc, positions, pending, visited, d_choices, npa, q_idx,
                   aut, decoded, nodes, gpending, gvisited, text, verdict, alt>>

\* apta.compute_total_priority()
ComputeTotalPriority ==
    /\ pc = "expand"
    /\ num_expanded = Len(states)
    /\ states' = compute_total_priority(states)
    /\ pc' = "emptyness_arena"
    /\ UNCHANGED <<formula, seed, num_expanded, positions, pending, visited, d_choices,
                   npa, q_idx, aut, decoded, nodes, gpending, gvisited, text, verdict, alt>>

\* emptyness_arena up to its loop: the initial position and the worklist
ArenaInit ==
    /\ pc = "emptyness_arena"
    /\ positions' = get_position(positions, states, {StateIndex(states, formula)}, None)
    /\ pending' = <<0>>
    /\ visited' = {}
    /\ pc' = "arena"
    /\ UNCHANGED <<formula, seed, states, num_expanded, d_choices, npa, q_idx,
                   aut, decoded, nodes, gpending, gvisited, text, verdict, alt>>

\* one iteration of the loop of emptyness_arena
ArenaStep ==
    /\ pc = "arena"
    /\ pending # <<>>
    /\ LET node_idx == pending[Len(pending)]
           popped == SubSeq(pending, 1, Len(pending) - 1)
       IN IF node_idx \in visited
          THEN /\ pending' = popped
               /\ UNCHANGED <<positions, visited, d_choices>>
          ELSE LET edges == ArenaEdges(states, positions[node_idx + 1], seed)
                   ar == AddEdges([positions |-> positions, pending |-> popped],
                                  states, node_idx, edges, visited \cup {node_idx})
               IN /\ positions' = ar.positions
                  /\ pending' = ar.pending
                  /\ visited' = visited \cup {node_idx}
                  /\ d_choices' = d_choices \cup
                        {edges[i][1][2] : i \in {j \in 1..Len(edges) :
                            /\ edges[j][1] # None /\ edges[j][1][1] = "d"
                            /\ edges[j][1][2] # {}}}
    /\ UNCHANGED <<formula, seed, pc, states, num_expanded, npa, q_idx,
                   aut, decoded, nodes, gpending, gvisited, text, verdict, alt>>

\* NPA.from_apta: one NPA state per APTA state
FromApta ==
    /\ pc = "arena"
    /\ pending = <<>>
    /\ npa' = NPA_states(states)
    /\ q_idx' = 0
    /\ pc' = "npa"
    /\ UNCHANGED <<formula, seed, states, num_expanded, positions, pending, visited,
                   d_choices, aut, decoded, nodes, gpending, gvisited, text, verdict, alt>>

\* one iteration of the second loop of NPA.from_apta
NpaExpandState ==
    /\ pc = "npa"
    /\ q_idx < Len(npa)
    /\ npa' = [npa EXCEPT ![q_idx + 1].next = NPA_expand_state(states, q_idx)]
    /\ q_idx' = q_idx + 1
    /\ UNCHANGED <<formula, seed, pc, states, num_expanded, positions, pending, visited,
                   d_choices, aut, decoded, nodes, gpending, gvisited, text, verdict, alt>>

\* determinize(npa) up to the call of the external determinizer, whose
\* result ParityGame.from_formula does not use
Determinize ==
    /\ pc = "npa"
    /\ q_idx = Len(npa)
    /\ aut' = aut_edges(states, npa)
    /\ pc' = "build"
    /\ UNCHANGED <<formula, seed, states, num_expanded, positions, pending, visited,
                   d_choices, npa, q_idx, decoded, nodes, gpending, gvisited, text,
                   verdict, alt>>

\* the automaton ParityGame.from_formula hands to the game
tracking_aut == npa

\* ParityGame.build up to its loop
BuildInit ==
    /\ pc = "build"
    /\ nodes' = get_node(nodes, positions, tracking_aut, 0, tracking_aut[1].idx, None)
    /\ gpending' = <<0>>
    /\ gvisited' = {}
    /\ pc' = "build_loop"
    /\ UNCHANGED <<formula, seed, states, num_expanded, positions, pending, visited,
                   d_choices, npa, q_idx, aut, decoded, text, verdict, alt>>

NodeKey(node) == <<node.arena_position, node.tracking_state, node.symbol>>

\* one iteration of the loop of ParityGame.build
BuildStep ==
    /\ pc = "build_loop"
    /\ gpending # <<>>
    /\ LET idx == gpending[Len(gpending)]
           popped == SubSeq(gpending, 1, Len(gpending) - 1)
           key == NodeKey(nodes[idx + 1])
       IN IF key \in gvisited
          THEN /\ gpending' = popped
               /\ UNCHANGED <<nodes, gvisited>>
          ELSE LET ns == PG_expand_state(nodes, positions, tracking_aut, idx)
               IN /\ nodes' = ns
                  /\ gvisited' = gvisited \cup {key}
                  /\ gpending' = popped \o NodeOrder(ns[idx + 1].successors, seed)
    /\ UNCHANGED <<formula, seed, pc, states, num_expanded, positions, pending, visited,
                   d_choices, npa, q_idx, aut, decoded, text, verdict, alt>>

\* pg._to_pgsolver_format()
Emit ==
    /\ pc = "build_loop"
    /\ gpending = <<>>
    /\ text' = to_pgsolver_format(nodes, seed)
    /\ pc' = "solve"
    /\ UNCHANGED <<formula, seed, states, num_expanded, positions, pending, visited,
                   d_choices, npa, q_idx, aut, decoded, nodes, gpending, gvisited,
                   verdict, alt>>

\* print(not spot.solve_game(pga)): the verdict as a one-element tuple
Solve ==
    /\ pc = "solve"
    /\ verdict' = <<~solve_game(text)>>
    /\ pc' = "done"
    /\ UNCHANGED <<formula, seed, states, num_expanded, positions, pending, visited,
                   d_choices, npa, q_idx, aut, decoded, nodes, gpending, gvisited,
                   text, alt>>

Next ==
    \/ FromFormula
    \/ ExpandState
    \/ ComputeTotalPriority
    \/ ArenaInit
    \/ ArenaStep
    \/ FromApta
    \/ NpaExpandState
    \/ Determinize
    \/ BuildInit
    \/ BuildStep
    \/ Emit
    \/ Solve

Spec == Init /\ [][Next]_vars

(* ------------------- alternation depth and level ---------------------- *)

\* the binder variables of a nest, x_1 the innermost
NestVar(i) == <<"X1", "X2", "X3", "X4", "X5">>[i]

\* the conjunction of the variables x_lo .. x_hi
RECURSIVE VarsAnd(_, _)
VarsAnd(lo, hi) == IF lo = hi THEN Var(NestVar(lo))
                   ELSE And(Var(NestVar(hi)), VarsAnd(lo, hi - 1))

\* bodies psi of a nest of n binders: every one mentions x_2 .. x_n; those
\* of BodiesWith also mention the innermost variable x_1
BodiesWith(n) == { VarsAnd(1, n), Or(p, Dia(VarsAnd(1, n))) }
BodiesWithout(n) == IF n = 1 THEN { p, Box(Neg(p)) }
                    ELSE { VarsAnd(2, n), Or(Dia(VarsAnd(2, n)), p) }

Wraps == {"none", "dia", "and"}
Wrap(w, f) == IF w = "dia" THEN Dia(f) ELSE IF w = "and" THEN And(p, f) ELSE f

Flip(op) == IF op = "FIXPOINT_MU" THEN "FIXPOINT_NU" ELSE "FIXPOINT_MU"

\* Q_n x_n . w(Q_(n-1) x_(n-1) . w( ... w(Q_1 x_1 . psi))), Q_n = op, the
\* binders strictly alternating
RECURSIVE Nest(_, _, _, _)
Nest(n, op, w, psi) ==
    <<op, NestVar(n), IF n = 1 THEN psi ELSE Wrap(w, Nest(n - 1, Flip(op), w, psi))>>

Nests(n) == {Nest(n, op, w, psi) : op \in {"FIXPOINT_MU", "FIXPOINT_NU"}, w \in Wraps,
                                    psi \in BodiesWith(n) \cup BodiesWithout(n)}

InitAlt ==
    /\ formula \in UNION {Nests(n) : n \in 1..MaxNest}
    /\ seed = 0
    /\ pc = "alternation_depth"
    /\ states = <<>> /\ num_expanded = 0
    /\ positions = <<>> /\ pending = <<>> /\ visited = {} /\ d_choices = {}
    /\ npa = <<>> /\ q_idx = 0 /\ aut = <<>> /\ decoded = <<>>
    /\ nodes = <<>> /\ gpending = <<>> /\ gvisited = {}
    /\ text = None /\ verdict = None
    /\ alt = <<>>

\* d = alternation_depth(chi)
AltDepth ==
    /\ pc = "alternation_depth"
    /\ alt' = <<alternation_depth(formula)>>
    /\ pc' = "alternation_level"
    /\ UNCHANGED <<formula, seed, states, num_expanded, positions, pending, visited,
                   d_choices, npa, q_idx, aut, decoded, nodes, gpending, gvisited,
                   text, verdict>>

\* alternation_level(chi)
AltLevel ==
    /\ pc = "alternation_level"
    /\ alt' = <<alt[1], alternation_level(formula)>>
    /\ pc' = "done"
    /\ UNCHANGED <<formula, seed, states, num_expanded, positions, pending, visited,
                   d_choices, npa, q_idx, aut, decoded, nodes, gpending, gvisited,
                   text, verdict>>

NextAlt == AltDepth \/ AltLevel

SpecAlt == InitAlt /\ [][NextAlt]_vars

(* ------------------------ label round trip ---------------------------- *)

\* the labels of the tracking automaton, in the order determinize meets them
NpaLabels(tracking) ==
    Flatten([sn \in 1..Len(tracking) |->
                [i \in 1..Len(tracking[sn].next) |-> tracking[sn].next[i][1]]])

\* translate_back_label(translate_label(label)) for every label of the NPA
RoundTrip ==
    /\ pc = "build"
    /\ decoded' = [i \in 1..Len(NpaLabels(npa)) |->
                     [label |-> NpaLabels(npa)[i],
                      back |-> translate_back_label(states,
                                   translate_label(states, NpaLabels(npa)[i]))]]
    /\ pc' = "done"
    /\ UNCHANGED <<formula, seed, states, num_expanded, positions, pending, visited,
                   d_choices, npa, q_idx, aut, nodes, gpending, gvisited, text,
                   verdict, alt>>

NextRT ==
    \/ FromFormula
    \/ ExpandState
    \/ ComputeTotalPriority
    \/ ArenaInit
    \/ ArenaStep
    \/ FromApta
    \/ NpaExpandState
    \/ Determinize
    \/ RoundTrip

SpecRT == Init /\ [][NextRT]_vars

(* --------------------------- a second run ----------------------------- *)

\* what a finished run has indexed: the formulas of the APTA states, the
\* (states, symbol) of the positions, the keys of the nodes, and the text
Indexing ==
    [apta |-> [i \in 1..Len(states) |-> states[i].value],
     arena |-> [i \in 1..Len(positions) |-> <<positions[i].states, positions[i].symbol>>],
     game |-> [i \in 1..Len(nodes) |-> NodeKey(nodes[i])],
     text |-> text]

\* main is run again on the same formula: the first run's indexing is kept
\* for comparison, the iteration order of the sets is whatever the new
\* process gives
Rerun ==
    /\ pc = "done"
    /\ decoded = <<>>
    /\ decoded' = <<Indexing>>
    /\ seed' \in Seeds
    /\ pc' = "from_formula"
    /\ states' = <<>> /\ num_expanded' = 0
    /\ positions' = <<>> /\ pending' = <<>> /\ visited' = {} /\ d_choices' = {}
    /\ npa' = <<>> /\ q_idx' = 0 /\ aut' = <<>>
    /\ nodes' = <<>> /\ gpending' = <<>> /\ gvisited' = {}
    /\ text' = None /\ verdict' = None
    /\ UNCHANGED <<formula, alt>>

NextDet ==
    \/ FromFormula
    \/ ExpandState
    \/ ComputeTotalPriority
    \/ ArenaInit
    \/ ArenaStep
    \/ FromApta
    \/ NpaExpandState
    \/ Determinize
    \/ BuildInit
    \/ BuildStep
    \/ Emit
    \/ Solve
    \/ Rerun

SpecDet == Init /\ [][NextDet]_vars

(* ----------------------- reference semantics -------------------------- *)

Worlds == 1..MaxWorlds

VarNames == {"X", "Y"}

\* the worlds of the Kripke structure (R, Val) at which f holds, the
\* variables read from env; fixpoints by iteration from the bottom or the top
RECURSIVE Eval(_, _, _, _)
RECURSIVE FixIter(_, _, _, _, _)
Eval(f, R, Val, env) ==
    IF f[1] = "LIT" THEN (IF f[2] THEN Worlds ELSE {})
    ELSE IF f[1] = "PROP" THEN {w \in Worlds : <<w, f[2]>> \in Val}
    ELSE IF f[1] = "VAR" THEN env[f[2]]
    ELSE IF f[1] = "NEGATION" THEN Worlds \ Eval(f[2], R, Val, env)
    ELSE IF f[1] = "CONJUNCTION" THEN Eval(f[2], R, Val, env) \cap Eval(f[3], R, Val, env)
    ELSE IF f[1] = "DISJUNCTION" THEN Eval(f[2], R, Val, env) \cup Eval(f[3], R, Val, env)
    ELSE IF f[1] = "ONE"
         THEN LET S == Eval(f[3], R, Val, env)
              IN {w \in Worlds : \E v \in S : <<w, v>> \in R}
    ELSE IF f[1] = "ALL"
         THEN LET S == Eval(f[3], R, Val, env)
              IN {w \in Worlds : \A v \in Worlds : <<w, v>> \in R => v \in S}
    ELSE FixIter(f, R, Val, env, IF f[1] = "FIXPOINT_MU" THEN {} ELSE Worlds)

FixIter(f, R, Val, env, cur) ==
    LET nxt == Eval(f[3], R, Val, [env EXCEPT ![f[2]] = cur])
    IN IF nxt = cur THEN cur ELSE FixIter(f, R, Val, env, nxt)

\* f holds at world 1 of some Kripke structure over Worlds
Satisfiable(f) ==
    \E R \in SUBSET (Worlds \X Worlds) :
        \E Val \in SUBSET (Worlds \X get_propositions(f)) :
            1 \in Eval(f, R, Val, [x \in VarNames |-> {}])

(* ------------------------------ claims -------------------------------- *)

Emitted == pc \in {"solve", "done"}

\* C1: player 0 wins node 0 of the emitted game, under parity max even, iff
\* the input formula is satisfiable.
C1_Soundness ==
    Emitted => ((0 \in Win0(text, TextIds(text))) <=> Satisfiable(formula))

\* C2: the game of mu X. X is won from node 0 by player 1 (verdict
\* unsatisfiable) and every priority on its cycles is odd; the game of
\* nu X. X is won by player 0 (verdict satisfiable) and every priority is even.
C2_FixpointScenarios ==
    pc = "done" =>
        /\ formula = Mu("X", X) =>
              /\ verdict = <<FALSE>>
              /\ 0 \notin Win0(text, TextIds(text))
              /\ \A i \in 1..Len(text.lines) : text.lines[i].priority % 2 = 1
        /\ formula = Nu("X", X) =>
              /\ verdict = <<TRUE>>
              /\ 0 \in Win0(text, TextIds(text))
              /\ \A i \in 1..Len(text.lines) : text.lines[i].priority % 2 = 0

C2_Witness ==
    /\ pc = "done" /\ formula = Mu("X", X) /\ verdict = <<FALSE>>
    /\ \E i \in 1..Len(text.lines) : text.lines[i].priority = 3

\* the total priorities have been computed
OmegaDone == pc \notin {"from_formula", "expand", "alternation_depth", "alternation_level"}
             /\ states # <<>>

\* strongly connected components by mutual reachability
StateIds == 0..(Len(states) - 1)
Reaches(a, b) == b \in ReachPlus(states, a)
SameSCC(a, b) == a = b \/ (Reaches(a, b) /\ Reaches(b, a))
OnCycle(a) == Reaches(a, a)

\* C3 as stated: in every strongly connected component of the APTA all
\* states have the same omega, and omega(q) >= omegap(q) for every state,
\* singleton components without a self-loop included.
C3_Original ==
    OmegaDone =>
        \A a \in StateIds :
            /\ \A b \in StateIds : SameSCC(a, b) => states[a + 1].omega = states[b + 1].omega
            /\ states[a + 1].omega >= states[a + 1].omegap

\* C3 amended: in every strongly connected component all states have the
\* same omega; omega(q) >= omegap(q) for every state that lies on a cycle;
\* a state on no cycle has omega = 0, whatever its omegap.
C3_Amended ==
    OmegaDone =>
        \A a \in StateIds :
            /\ \A b \in StateIds : SameSCC(a, b) => states[a + 1].omega = states[b + 1].omega
            /\ OnCycle(a) => states[a + 1].omega >= states[a + 1].omegap
            /\ ~OnCycle(a) => states[a + 1].omega = 0

C3_Witness ==
    /\ OmegaDone
    /\ \E a, b \in StateIds : /\ a # b /\ SameSCC(a, b)
                              /\ states[a + 1].omegap > states[b + 1].omegap
    /\ \E c \in StateIds : ~OnCycle(c) /\ states[c + 1].omegap > 0

\* the nest of n binders whose outermost is op, given to alternation_depth
IsNest(n, psis) == \E op \in {"FIXPOINT_MU", "FIXPOINT_NU"}, w \in Wraps, psi \in psis :
                       formula = Nest(n, op, w, psi)

\* C4 as stated: for a nest of n strictly alternating binders in which each
\* inner body mentions the enclosing variable, alternation_depth is n - 1.
C4_Original ==
    Len(alt) >= 1 =>
        \A n \in 1..MaxNest :
            IsNest(n, BodiesWith(n) \cup BodiesWithout(n)) => alt[1] = n - 1

\* C4 amended: for such a nest alternation_depth is n when the innermost
\* variable occurs in its own body and n - 1 when it does not.
C4_Amended ==
    Len(alt) >= 1 =>
        \A n \in 1..MaxNest :
            /\ IsNest(n, BodiesWith(n)) => alt[1] = n
            /\ IsNest(n, BodiesWithout(n)) => alt[1] = n - 1

C4_Witness ==
    /\ Len(alt) >= 1
    /\ formula = Nest(2, "FIXPOINT_MU", "none", VarsAnd(1, 2))
    /\ alt[1] = 2

ArenaDone == pc \notin {"from_formula", "expand", "emptyness_arena", "arena",
                        "alternation_depth", "alternation_level"}
             \/ (pc = "arena" /\ pending = <<>>)

\* the truth assignments of a set of propositions, as sets of pairs
Assignments(P) == {{<<x, f[x]>> : x \in P} : f \in [P -> BOOLEAN]}

PositionProps(pos) == UNION {get_propositions(states[s + 1].value) : s \in pos.states}

RECURSIVE Pow2(_)
Pow2(n) == IF n = 0 THEN 1 ELSE 2 * Pow2(n - 1)

\* C6: after emptyness_arena every position (S, None) has exactly one edge per
\* truth assignment of the propositions occurring in S, labelled by it and
\* leading to the position (S, that assignment), and no other edge.
C6_Alphabet ==
    ArenaDone =>
        \A i \in 1..Len(positions) :
            positions[i].symbol = None =>
                LET P == PositionProps(positions[i])
                    nxt == positions[i].next
                IN /\ Len(nxt) = Pow2(Cardinality(P))
                   /\ \A a \in Assignments(P) :
                         /\ Cardinality({j \in 1..Len(nxt) : nxt[j][1] = <<"sigma", a>>}) = 1
                         /\ \E j \in 1..Len(nxt) :
                               /\ nxt[j][1] = <<"sigma", a>>
                               /\ positions[nxt[j][2] + 1].states = positions[i].states
                               /\ positions[nxt[j][2] + 1].symbol = <<"sigma", a>>

C6_Witness ==
    /\ ArenaDone
    /\ \E i \in 1..Len(positions) :
          /\ positions[i].symbol = None
          /\ Cardinality(PositionProps(positions[i])) = 2
          /\ Len(positions[i].next) = 4

\* every NPA state has been expanded
NpaDone == pc \in {"build", "build_loop", "solve", "done"} \/ (pc = "npa" /\ q_idx = Len(npa))

\* C7: after from_apta every modal NPA state has exactly the self-loop
\* CHOICE() and one STATE transition per successor set of its APTA state,
\* with that set as targets and extra = its own index if existential, empty
\* if universal.
C7_ModalTransitions ==
    NpaDone =>
        \A i \in 1..Len(npa) :
            ~states[i].local =>
                LET nxt == npa[i].next
                    extra == IF states[i].existential THEN <<"int", i - 1>> ELSE <<>>
                    loops == {j \in 1..Len(nxt) : nxt[j][1].type = "CHOICE"}
                    moves == {j \in 1..Len(nxt) : nxt[j][1].type = "STATE"}
                IN /\ Len(nxt) = 1 + Len(states[i].next)
                   /\ Cardinality(loops) = 1
                   /\ \A j \in loops : /\ nxt[j][1].extra = <<>> /\ nxt[j][1].aprops = <<>>
                                       /\ nxt[j][2] = {i - 1}
                   /\ Cardinality(moves) = Len(states[i].next)
                   /\ \A j \in moves : /\ nxt[j][1].extra = extra /\ nxt[j][1].aprops = <<>>
                                       /\ \E k \in 1..Len(states[i].next) :
                                             nxt[j][2] = states[i].next[k][2]
                   /\ \A k \in 1..Len(states[i].next) :
                         \E j \in moves : nxt[j][2] = states[i].next[k][2]

C7_Witness ==
    /\ NpaDone
    /\ \E i, j \in 1..Len(npa) :
          /\ ~states[i].local /\ states[i].existential
          /\ ~states[j].local /\ ~states[j].existential
          /\ Len(npa[i].next) = 2 /\ Len(npa[j].next) = 2

\* a local-existential state with a single successor is left out of the
\* encoding on purpose, so its pair is not a constraint the decoding can keep
SingleChoice(pair) == Cardinality(Successors(states, pair[1])) = 1

\* C8: decoding the encoding of a label of the NPA gives a label of the
\* same type, the same aprops and, when extra is constrained, the same extra
\* (the same state index for STATE, the same pair (q, q') for CHOICE).
C8_RoundTrip ==
    \A i \in 1..Len(decoded) :
        LET l == decoded[i].label
            b == decoded[i].back
        IN /\ b.type = l.type
           /\ b.aprops = l.aprops
           /\ (l.extra # <<>> /\ l.extra[1] = "int") => b.extra = l.extra
           /\ (l.extra # <<>> /\ l.extra[1] = "pairs" /\ ~SingleChoice(l.extra[2][1])) =>
                 (b.extra # <<>> /\ b.extra[1] = "pairs" /\ b.extra[2] = l.extra[2])

\* C9: the emitted text has the header `parity N;` with N the number of
\* nodes, then N lines with ids 0..N-1 in order, each with a player 0 or 1,
\* a non-negative priority and a non-empty list of successors in 0..N-1.
C9_WellFormed ==
    Emitted =>
        /\ text.header = Len(nodes)
        /\ Len(text.lines) = text.header
        /\ \A i \in 1..Len(text.lines) :
              LET ln == text.lines[i]
              IN /\ ln.id = i - 1
                 /\ ln.player \in {0, 1}
                 /\ ln.priority \in Nat
                 /\ Len(ln.succs) >= 1
                 /\ \A k \in 1..Len(ln.succs) : ln.succs[k] \in 0..(text.header - 1)

C9_Witness ==
    /\ Emitted
    /\ Len(text.lines) >= 2
    /\ \E i \in 1..Len(nodes) : nodes[i].successors = {}
    /\ \E i \in 1..Len(nodes) : Cardinality(nodes[i].successors) >= 2

\* C10: a node without successors is written as a self-loop on its own id
\* with priority 1 - player (1 for a stuck player-0 node, 0 for a stuck
\* player-1 node); a node with successors keeps its priority and successors.
C10_DeadEnds ==
    Emitted =>
        \A i \in 1..Len(nodes) :
            LET ln == text.lines[i]
                owner == IF nodes[i].player THEN 0 ELSE 1
            IN /\ ln.player = owner
               /\ nodes[i].successors = {} =>
                     /\ ln.succs = <<i - 1>>
                     /\ ln.priority = (IF owner = 0 THEN 1 ELSE 0)
               /\ nodes[i].successors # {} =>
                     /\ ln.priority = nodes[i].priority
                     /\ Range(ln.succs) = nodes[i].successors
                     /\ Len(ln.succs) = Cardinality(nodes[i].successors)

C10_Witness ==
    /\ Emitted
    /\ \E i \in 1..Len(nodes) :
          /\ nodes[i].successors = {} /\ ~nodes[i].player
          /\ text.lines[i].priority = 0 /\ text.lines[i].succs = <<i - 1>>
          /\ nodes[i].priority # 0
    /\ \E i \in 1..Len(nodes) : nodes[i].successors # {}

\* C11: for a fixed formula the indices of the APTA states, of the arena
\* positions and of the game nodes, and the emitted text, are the same in
\* every run, whatever the iteration order of the unordered sets.
C11_Determinism ==
    (pc = "done" /\ decoded # <<>>) => Indexing = decoded[1]

\* the subformulae of f
RECURSIVE Sub(_)
Sub(f) ==
    {f} \cup
    (IF f[1] \in {"LIT", "PROP", "VAR"} THEN {}
     ELSE IF f[1] = "NEGATION" THEN Sub(f[2])
     ELSE IF f[1] \in {"CONJUNCTION", "DISJUNCTION"} THEN Sub(f[2]) \cup Sub(f[3])
     ELSE Sub(f[3]))

\* the one-step unfoldings of the fixpoint subformulae of f
Unfoldings(f) == {substitute_variable(g[3], g[2], g) : g \in {h \in Sub(f) : IsFixpoint(h)}}

\* the number of distinct subformulae and one-step unfoldings, and the two
\* literal states that the PROP and NEGATION states lead to
StateBound(f) == Cardinality(Sub(f) \cup Unfoldings(f)) + 2

\* C12: the worklist of APTA.from_formula empties with every state expanded
\* once, and the number of states never exceeds the number of distinct
\* subformulae and their one-step unfoldings.
C12_Termination ==
    pc \notin {"alternation_depth", "alternation_level"} =>
        /\ num_expanded <= Len(states)
        /\ Len(states) <= StateBound(formula)

\* ceil(n / 2) for a natural number n
CeilHalf(n) == (n + 1) \div 2

\* C13: a mu state of alternation depth d has omegap = 2*ceil((d+1)/2) - 1,
\* odd and at least 1; a nu state has omegap = 2*floor(d/2), even and at
\* least 0; no APTA state has a negative omegap.
C13_LevelFormula ==
    \A i \in 1..Len(states) :
        LET chi == states[i].value
            d == alternation_depth(chi)
        IN /\ states[i].omegap >= 0
           /\ chi[1] = "FIXPOINT_MU" =>
                 /\ states[i].omegap = 2 * CeilHalf(d + 1) - 1
                 /\ states[i].omegap % 2 = 1 /\ states[i].omegap >= 1
           /\ chi[1] = "FIXPOINT_NU" =>
                 /\ states[i].omegap = 2 * (d \div 2)
                 /\ states[i].omegap % 2 = 0

\* the successor graph read off the transition tables, and reachability in
\* one or more steps
RefSucc(a) == UNION {states[a + 1].next[k][2] : k \in 1..Len(states[a + 1].next)}
RECURSIVE RefClose(_)
RefClose(S) ==
    LET T == S \cup UNION {RefSucc(x) : x \in S}
    IN IF T = S THEN S ELSE RefClose(T)
RefReach(a) == RefClose(RefSucc(a))
RefSCC(a) == {b \in StateIds : b = a \/ (b \in RefReach(a) /\ a \in RefReach(b))}

\* C14: omega(q) = 0 when q is a singleton component without a transition to
\* itself, otherwise omega(q) is the maximum omegap over the component of q,
\* the components being those of mutual reachability; a literal state keeps
\* its own omegap, 0 for true and 1 for false.
C14_TotalPriority ==
    OmegaDone =>
        \A a \in StateIds :
            /\ states[a + 1].omega =
                  IF RefSCC(a) = {a} /\ a \notin RefSucc(a) THEN 0
                  ELSE SetMax({states[b + 1].omegap : b \in RefSCC(a)})
            /\ states[a + 1].value = TT => states[a + 1].omega = 0
            /\ states[a + 1].value = FF => states[a + 1].omega = 1

C14_Witness ==
    /\ OmegaDone
    /\ \E a \in StateIds : /\ RefSCC(a) = {a} /\ a \notin RefSucc(a)
                           /\ states[a + 1].omegap # 0 /\ states[a + 1].omega = 0
    /\ \E a \in StateIds : /\ Cardinality(RefSCC(a)) > 1
                           /\ states[a + 1].omega > states[a + 1].omegap

\* the nodes that build() has expanded
Expanded == {i \in 1..Len(nodes) : NodeKey(nodes[i]) \in gvisited}

\* rule C: a STATE label against (sigma, d)
RuleC(label, sigma, d) ==
    /\ d # None /\ d[1] = "q"
    /\ label.extra = None \/ label.extra = <<"int", d[2]>>
    /\ ApropsCompatible(label, sigma)

\* C15: when a node (v, t, (sigma, d)) is expanded, a STATE transition of t
\* is taken iff d is a modal state and the label's extra is empty or equal
\* to d, the aprops agreeing with sigma; every target t' of a transition
\* taken gives the successor (v, t', None).
C15_StateRule ==
    \A i \in Expanded :
        (nodes[i].symbol # None /\ nodes[i].symbol[1] = "pair") =>
            LET nxt == tracking_aut[nodes[i].tracking_state + 1].next
                succ == {NodeKey(nodes[j + 1]) : j \in nodes[i].successors}
            IN \A k \in 1..Len(nxt) :
                  nxt[k][1].type = "STATE" =>
                     \A t \in nxt[k][2] :
                        RuleC(nxt[k][1], nodes[i].symbol[2], nodes[i].symbol[3])
                           => <<nodes[i].arena_position, t, None>> \in succ

\* C16: the tracking component of the game is deterministic: every expanded
\* node (v, t, (sigma, d)), which consumes a letter, has at most one
\* successor tracking state.
C16_Deterministic ==
    \A i \in Expanded :
        (nodes[i].symbol # None /\ nodes[i].symbol[1] = "pair") =>
            Cardinality({nodes[j + 1].tracking_state : j \in nodes[i].successors}) <= 1

\* bit j of num, counted from the most significant of len bits (j from 0)
MsbBit(num, len, j) == (num \div (2 ^ (len - 1 - j))) % 2 # 0

\* C17: the encoding of STATE(extra = q) writes the index of q among the
\* modal-existential states in binary on _u0 .. _u(k-1), the most
\* significant bit on _u0, and the decoding gives back the state q.
C17_BinaryEncoding ==
    \A i \in 1..Len(decoded) :
        LET l == decoded[i].label
        IN (l.type = "STATE" /\ l.extra # None) =>
              LET num == ListIndex(modal_ex_states(states), l.extra[2])
                  len == state_length(states)
              IN /\ \A j \in 0..(len - 1) :
                       Lit("u", j, MsbBit(num, len, j)) \in translate_label(states, l)
                 /\ decoded[i].back.extra = l.extra

\* equality over the full shape of a label
SameLabel(a, b) == a.type = b.type /\ a.extra = b.extra /\ a.aprops = b.aprops

\* C18: two labels are equal iff their type, extra and aprops are equal,
\* equal labels have equal hashes, and the transition table of an NPA state
\* holds one entry per distinct label.
C18_LabelIdentity ==
    /\ \A i, j \in 1..Len(NpaLabels(npa)) :
          LET a == NpaLabels(npa)[i]
              b == NpaLabels(npa)[j]
          IN /\ LabelEq(a, b) <=> SameLabel(a, b)
             /\ LabelEq(a, b) => LabelHash(a) = LabelHash(b)
    /\ \A n \in 1..Len(npa) : \A i, j \in 1..Len(npa[n].next) :
          SameLabel(npa[n].next[i][1], npa[n].next[j][1]) => i = j

\* the expanded positions with a letter and no local state
ModalPositions ==
    {i \in 1..Len(positions) :
        /\ (i - 1) \in visited
        /\ positions[i].symbol # None
        /\ \A x \in positions[i].states : ~states[x + 1].local}

\* the states after the modal move on x: its successors and those of the
\* universal states of S other than x
MoveTarget(S, x) ==
    RefSucc(x) \cup UNION {RefSucc(y) : y \in {z \in S : z # x /\ ~states[z + 1].existential}}

\* C19: a position (S, sigma) with a letter and no local state has, if S has
\* modal-existential states, exactly one edge per such state q, labelled q,
\* to (S', None) with S' the successors of q and of the universal states of
\* S other than q; otherwise exactly one edge, labelled None, to (S', None)
\* with S' the successors of all the states of S.
C19_ModalMoves ==
    \A i \in ModalPositions :
        LET S == positions[i].states
            E == {x \in S : states[x + 1].existential}
            nxt == positions[i].next
        IN /\ \A j \in 1..Len(nxt) : positions[nxt[j][2] + 1].symbol = None
           /\ IF E # {}
              THEN /\ Len(nxt) = Cardinality(E)
                   /\ \A x \in E : \E j \in 1..Len(nxt) :
                         /\ nxt[j][1] = <<"q", x>>
                         /\ positions[nxt[j][2] + 1].states = MoveTarget(S, x)
              ELSE /\ Len(nxt) = 1
                   /\ nxt[1][1] = None
                   /\ positions[nxt[1][2] + 1].states = UNION {RefSucc(x) : x \in S}

C19_Witness ==
    \E i \in ModalPositions :
        LET S == positions[i].states
        IN /\ \E x, y \in S : states[x + 1].existential /\ ~states[y + 1].existential
           /\ Len(positions[i].next) = 1
           /\ Cardinality(positions[positions[i].next[1][2] + 1].states) = 2

\* C20: every position (S, sigma) created by emptyness_arena has a non-empty
\* set S of indices of APTA states; when sigma is a letter it gives a truth
\* value to every proposition of the formulas of S; every expanded position
\* has at least one outgoing edge.
C20_ArenaInvariant ==
    \A i \in 1..Len(positions) :
        /\ positions[i].states # {}
        /\ positions[i].states \subseteq StateIds
        /\ positions[i].symbol # None =>
              PositionProps(positions[i]) \subseteq {x[1] : x \in positions[i].symbol[2]}
        /\ (i - 1) \in visited => positions[i].next # <<>>

C20_Witness ==
    \E i \in 1..Len(positions) :
        /\ (i - 1) \in visited
        /\ positions[i].symbol # None
        /\ PositionProps(positions[i]) # {}
        /\ Cardinality(positions[i].states) >= 2
        /\ \E x \in positions[i].states : states[x + 1].local /\ ~states[x + 1].existential
        /\ positions[i].next # <<>>

\* whether position v is diamond: it has no letter yet, or a local state
DiamondPosition(v) ==
    \/ positions[v + 1].symbol = None
    \/ \E x \in positions[v + 1].states : states[x + 1].local

\* C21: in every state of the construction a node (v, t, s) with s = None is
\* owned by diamond iff position v is diamond, a node with s # None is owned
\* by box, and the priority of every node is the priority of t plus 1.
C21_Ownership ==
    \A i \in 1..Len(nodes) :
        /\ nodes[i].symbol = None => (nodes[i].player <=> DiamondPosition(nodes[i].arena_position))
        /\ nodes[i].symbol # None => ~nodes[i].player
        /\ nodes[i].priority = npa[nodes[i].tracking_state + 1].priority + 1

C21_Witness ==
    /\ \E i \in 1..Len(nodes) :
          /\ nodes[i].symbol = None /\ nodes[i].player
          /\ positions[nodes[i].arena_position + 1].symbol # None
    /\ \E i \in 1..Len(nodes) :
          /\ nodes[i].symbol = None /\ ~nodes[i].player
    /\ \E i \in 1..Len(nodes) :
          /\ nodes[i].symbol # None /\ DiamondPosition(nodes[i].arena_position)
          /\ nodes[i].priority = 3

\* a dict of label -> set of targets only grows: every recorded entry keeps
\* its place and its label, and keeps every target
DictGrows(old, new) ==
    /\ Len(old) <= Len(new)
    /\ \A j \in 1..Len(old) : new[j][1] = old[j][1] /\ old[j][2] \subseteq new[j][2]

\* a list of edges only grows: the recorded edges are a prefix of the new list
ListGrows(old, new) ==
    /\ Len(old) <= Len(new)
    /\ \A j \in 1..Len(old) : new[j] = old[j]

\* the APTA states keep index, value, local, existential and omegap
AptaKept ==
    /\ Len(states) <= Len(states')
    /\ \A i \in 1..Len(states) :
          /\ states'[i].value = states[i].value
          /\ states'[i].local = states[i].local
          /\ states'[i].existential = states[i].existential
          /\ states'[i].omegap = states[i].omegap
          /\ DictGrows(states[i].next, states'[i].next)

OmegaKept == \A i \in 1..Len(states) : states'[i].omega = states[i].omega

\* the arena positions keep index, key (states, symbol) and is_diamond
PositionsKept ==
    /\ Len(positions) <= Len(positions')
    /\ \A i \in 1..Len(positions) :
          /\ positions'[i].states = positions[i].states
          /\ positions'[i].symbol = positions[i].symbol
          /\ positions'[i].is_diamond = positions[i].is_diamond
          /\ ListGrows(positions[i].next, positions'[i].next)

\* the NPA states keep idx and priority
NpaKept ==
    /\ Len(npa) <= Len(npa')
    /\ \A i \in 1..Len(npa) :
          /\ npa'[i].idx = npa[i].idx
          /\ npa'[i].priority = npa[i].priority
          /\ DictGrows(npa[i].next, npa'[i].next)

\* the game nodes keep idx, key (v, t, s), player and priority
NodesKept ==
    /\ Len(nodes) <= Len(nodes')
    /\ \A i \in 1..Len(nodes) :
          /\ nodes'[i].idx = nodes[i].idx
          /\ NodeKey(nodes'[i]) = NodeKey(nodes[i])
          /\ nodes'[i].player = nodes[i].player
          /\ nodes'[i].priority = nodes[i].priority
          /\ nodes[i].successors \subseteq nodes'[i].successors

\* within one expansion no target is lost to a later assignment: an expanded
\* NPA state reaches every successor of its APTA state
NpaTargets(i) == UNION {npa[i].next[j][2] : j \in 1..Len(npa[i].next)}

NoneLost ==
    pc \in {"npa", "build", "build_loop", "solve", "done"} =>
        \A i \in 1..q_idx : Successors(states, i - 1) \subseteq NpaTargets(i)

\* the step of compute_total_priority
TotalPriorityStep == pc = "expand" /\ pc' = "emptyness_arena"

\* C22 as stated: no step changes the index, the key or an attribute of an
\* existing entity, omega included, and transition tables only grow.
C22_Original ==
    [][AptaKept /\ OmegaKept /\ PositionsKept /\ NpaKept /\ NodesKept /\ NoneLost']_vars

\* C22: no step changes the index, the key or an attribute of an existing
\* entity and transition tables only grow, except that omega, 0 at creation,
\* is assigned by the step of compute_total_priority and by no other step.
C22_Monotone ==
    [][/\ AptaKept /\ PositionsKept /\ NpaKept /\ NodesKept /\ NoneLost'
       /\ (OmegaKept \/ TotalPriorityStep)]_vars

C22_Witness ==
    /\ pc = "done"
    /\ \E i \in 1..Len(states) : states[i].omega > 0 /\ Len(states[i].next) > 0
    /\ \E i \in 1..Len(states) : \E j \in 1..Len(states[i].next) :
          Cardinality(states[i].next[j][2]) > 1
    /\ \E i \in 1..Len(positions) : Len(positions[i].next) > 1
    /\ \E i \in 1..Len(npa) : Len(npa[i].next) > 1
    /\ \E i \in 1..Len(nodes) : Cardinality(nodes[i].successors) > 1

====
